---- MODULE Spec2Model ----
(***************************************************************************)
(* docs/example1.py as a state machine.                                    *)
(*                                                                         *)
(* The module-level statements run one after the other (pc holds the line  *)
(* of the next statement).  Execution starts either at line 1 (the file is *)
(* run or imported by the interpreter) or at line 20 (lines 20-31, the     *)
(* definition of fact and the driver block, are loaded on their own).      *)
(* Once fact is bound and the module-level code has ended, a client may    *)
(* call fact(n).                                                           *)
(*                                                                         *)
(* No statement of the file binds the name List, so line 28 raises and     *)
(* lines 29-31 run in no execution: nums and facts are never bound and     *)
(* nothing is ever written to standard output.                             *)
(*                                                                         *)
(* fact runs statement by statement in a frame of its own (fpc holds the   *)
(* line of its next statement).                                            *)
(***************************************************************************)
EXTENDS Integers, Sequences, FiniteSets

\* ---------------------------------------------------------------- bounds
\* Largest and smallest (negated) argument a client passes to fact, and the
\* number of calls a client makes.
MaxN == 6
MaxNeg == 2
MaxCalls == 3

ArgRange == (0 - MaxNeg)..MaxN

VARIABLES
    entry,      \* where execution starts: "L1" (whole file) or "L20" (block)
    name,       \* the value of __name__
    pc,         \* next module-level statement ("L<line>"), or "done"
    status,     \* "running", "ok" (exit 0) or "error" (uncaught exception)
    exc,        \* the uncaught exception, or "none"
    bound,      \* names bound in the module namespace
    nums,       \* value of nums (<<>> while unbound)
    facts,      \* value of facts (<<>> while unbound)
    out,        \* everything written to standard output
    hcalls,     \* calls of fact made by a client
    fpc,        \* fact's next statement ("L<line>"), or "idle"
    caller,     \* who waits for fact's result: "none" or "client"
    n,          \* fact's parameter
    x,          \* fact's local x
    i,          \* fact's loop variable
    cur,        \* next value of the range iterator
    stop,       \* the range's stop value
    iters,      \* iterations of the loop body in the current call
    trail,      \* <<i, x>> after each iteration of the current call
    seen        \* for each argument, the results fact has returned for it

modvars == <<entry, name, pc, status, exc, bound, nums, facts, out>>
framevars == <<fpc, caller, n, x, i, cur, stop, iters, trail>>
vars == <<entry, name, pc, status, exc, bound, nums, facts, out,
          hcalls,
          fpc, caller, n, x, i, cur, stop, iters, trail, seen>>

\* ------------------------------------------------------------------ Init
Init ==
    /\ entry \in {"L1", "L20"}
    /\ name \in {"__main__", "example1"}
    /\ pc = entry
    /\ status = "running"
    /\ exc = "none"
    /\ bound = {}
    /\ nums = <<>>
    /\ facts = <<>>
    /\ out = ""
    /\ hcalls = 0
    /\ fpc = "idle"
    /\ caller = "none"
    /\ n = 0
    /\ x = 0
    /\ i = 0
    /\ cur = 0
    /\ stop = 0
    /\ iters = 0
    /\ trail = <<>>
    /\ seen = [a \in ArgRange |-> {}]

\* An uncaught exception ends the module-level code with a failure status.
Raise(e) ==
    /\ pc' = "done"
    /\ status' = "error"
    /\ exc' = e

\* ------------------------------------------------------ lines 1-17
\* line 1: import enum
ImportEnum ==
    /\ pc = "L1" /\ status = "running"
    /\ bound' = bound \cup {"enum"}
    /\ pc' = "L3"
    /\ UNCHANGED <<entry, name, status, exc, nums, facts, out>>
    /\ UNCHANGED <<hcalls, framevars, seen>>

\* lines 3-9: class Item (the class object is built and bound; no instance)
DefItem ==
    /\ pc = "L3" /\ status = "running"
    /\ bound' = bound \cup {"Item"}
    /\ pc' = "L13"
    /\ UNCHANGED <<entry, name, status, exc, nums, facts, out>>
    /\ UNCHANGED <<hcalls, framevars, seen>>

\* What enum.Enum(cls) does when called with one argument: Enum has no
\* members, so the call is a failed lookup.  It raises TypeError ("has no
\* members defined") on Python 3.11 and later and ValueError ("is not a valid
\* Enum") before; it never returns.
EnumCallExceptions == {"TypeError", "ValueError"}

\* lines 13-17: the class body runs (Option1..Option3 are plain attributes),
\* then the decorator expression enum.Enum is called with the class.  The
\* call raises, so MenuOptions is never bound.
DefMenuOptions ==
    /\ pc = "L13" /\ status = "running"
    /\ \E e \in EnumCallExceptions : Raise(e)
    /\ UNCHANGED <<entry, name, bound, nums, facts, out>>
    /\ UNCHANGED <<hcalls, framevars, seen>>

\* ------------------------------------------------------ lines 20-24: fact
\* line 20: def fact(n) binds the function
DefFact ==
    /\ pc = "L20" /\ status = "running"
    /\ bound' = bound \cup {"fact"}
    /\ pc' = "L27"
    /\ UNCHANGED <<entry, name, status, exc, nums, facts, out>>
    /\ UNCHANGED <<hcalls, framevars, seen>>

\* A call of fact opens a frame whose only bound local is the parameter.
FactEnter(arg, who) ==
    /\ fpc = "idle"
    /\ fpc' = "L21"
    /\ caller' = who
    /\ n' = arg
    /\ iters' = 0
    /\ trail' = <<>>
    /\ UNCHANGED <<x, i, cur, stop>>

\* A variant of line 21 that sets x only when it was never set, so that the
\* total of one call is carried into the next.
FactL21_KeepsX ==
    /\ fpc = "L21"
    /\ x' = IF x = 0 THEN 1 ELSE x
    /\ fpc' = "L22"
    /\ UNCHANGED <<modvars, hcalls, caller, n, i, cur, stop, iters, trail, seen>>

\* line 21: x = 1
FactL21 ==
    /\ fpc = "L21"
    /\ x' = 1
    /\ fpc' = "L22"
    /\ UNCHANGED <<modvars, hcalls, caller, n, i, cur, stop, iters, trail, seen>>

\* A variant of the stop value that takes the magnitude of the bound.
RangeStop_Magnitude(arg) == IF arg < 0 THEN (0 - arg) + 1 ELSE arg + 1

\* line 22: the stop value of range(1, n + 1)
RangeStop(arg) == arg + 1

\* line 22, first evaluation: range(1, n + 1) and its iterator
FactL22 ==
    /\ fpc = "L22"
    /\ cur' = 1
    /\ stop' = RangeStop(n)
    /\ fpc' = "L22next"
    /\ UNCHANGED <<modvars, hcalls, caller, n, x, i, iters, trail, seen>>

\* A variant of the iterator's test that includes the stop value.
HasNext_Inclusive(c, s) == c <= s

\* Whether a range iterator (step 1) at c with stop s has a next value.
HasNext(c, s) == c < s

\* line 22, the for statement asks the iterator for its next value
FactL22Next ==
    /\ fpc = "L22next"
    /\ IF HasNext(cur, stop)
       THEN /\ i' = cur
            /\ cur' = cur + 1
            /\ fpc' = "L23"
       ELSE /\ fpc' = "L24"
            /\ UNCHANGED <<i, cur>>
    /\ UNCHANGED <<modvars, hcalls, caller, n, x, stop, iters, trail, seen>>

\* A variant of line 23 that multiplies (the factorial the name suggests).
AddStep_Product(total, v) == total * v

\* line 23: the value x += i assigns
AddStep(total, v) == total + v

\* line 23: x += i
FactL23 ==
    /\ fpc = "L23"
    /\ x' = AddStep(x, i)
    /\ iters' = iters + 1
    /\ trail' = Append(trail, <<i, x'>>)
    /\ fpc' = "L22next"
    /\ UNCHANGED <<modvars, hcalls, caller, n, i, cur, stop, seen>>

\* line 24: return x.  The caller receives the result.
FactL24 ==
    /\ fpc = "L24"
    /\ fpc' = "idle"
    /\ caller' = "none"
    /\ seen' = [seen EXCEPT ![n] = @ \cup {x}]
    /\ UNCHANGED <<modvars, hcalls, n, x, i, cur, stop, iters, trail>>

\* lines 22-23 as one computation: the loop from iterator position c
RECURSIVE FactLoop(_, _, _)
FactLoop(total, c, s) ==
    IF HasNext(c, s) THEN FactLoop(AddStep(total, c), c + 1, s) ELSE total

\* lines 20-24: the value fact(arg) returns
Fact(arg) == FactLoop(1, 1, RangeStop(arg))

\* ------------------------------------------------------ lines 27-31: driver
\* A variant of the test of line 27 that is true under every name.
IsMain_Always(nm) == TRUE

\* line 27: __name__ == "__main__"
IsMain(nm) == nm = "__main__"

\* line 27: if __name__ == "__main__": a false test skips the block, and the
\* module-level code ends normally.
Guard ==
    /\ pc = "L27" /\ status = "running"
    /\ IF IsMain(name)
       THEN /\ pc' = "L28"
            /\ UNCHANGED status
       ELSE /\ pc' = "done"
            /\ status' = "ok"
    /\ UNCHANGED <<entry, name, exc, bound, nums, facts, out>>
    /\ UNCHANGED <<hcalls, framevars, seen>>

\* line 28: nums = List.of(1, 2, 3, 4, 5).  The name List is looked up
\* first; lines 1, 3 and 20 are the only statements that bind a name before
\* this one and none binds List, so the lookup raises NameError.  Lines
\* 29-31 (the map and the two prints) therefore never run.
BuildNums ==
    /\ pc = "L28" /\ status = "running"
    /\ "List" \notin bound
    /\ Raise("NameError")
    /\ UNCHANGED <<entry, name, bound, nums, facts, out>>
    /\ UNCHANGED <<hcalls, framevars, seen>>

\* ------------------------------------------------------------- a client
\* After the module-level code has ended, whoever holds the namespace may
\* call fact with any integer, if the name was bound.
ClientCall ==
    /\ pc = "done"
    /\ "fact" \in bound
    /\ hcalls < MaxCalls
    /\ \E a \in ArgRange : FactEnter(a, "client")
    /\ hcalls' = hcalls + 1
    /\ UNCHANGED <<modvars, seen>>

Next ==
    \/ ImportEnum
    \/ DefItem
    \/ DefMenuOptions
    \/ DefFact
    \/ Guard
    \/ BuildNums
    \/ ClientCall
    \/ FactL21
    \/ FactL22
    \/ FactL22Next
    \/ FactL23
    \/ FactL24

Spec == Init /\ [][Next]_vars

\* The interpreter runs one statement after the other and never suspends:
\* while a statement can run, one does.
FairSpec == Spec /\ WF_vars(Next)

\* ---------------------------------------------------------------- claims
Max(a, b) == IF a >= b THEN a ELSE b

\* 1 + m*(m+1)/2
Closed(m) == 1 + (m * (m + 1)) \div 2

TwoLines == "[1, 2, 3, 4, 5]\n[1, 2, 3, 4, 5]\n"

\* The interpreter runs the file itself as the top-level program.
TopLevelRun == entry = "L1" /\ name = "__main__"

\* C1: for every n >= 0 every call fact(n) returns exactly 1 + n*(n+1)/2;
\* fact(0) = 1, fact(1) = 2, fact(5) = 16.
C1_ClosedForm ==
    /\ \A a \in ArgRange : a >= 0 => seen[a] \subseteq {Closed(a)}
    /\ (fpc = "L24" /\ n >= 0) => x = Closed(n)
    /\ seen[0] \subseteq {1}
    /\ seen[1] \subseteq {2}
    /\ seen[5] \subseteq {16}

\* fact(0), fact(1) and fact(5) have all returned.
C1_Witness == seen[0] = {1} /\ seen[1] = {2} /\ seen[5] = {16}

\* C6: for every n < 0 a call fact(n) runs the loop body zero times and
\* returns the initial value 1.
C6_NegativeReturnsOne ==
    /\ \A a \in ArgRange : a < 0 => seen[a] \subseteq {1}
    /\ n < 0 => (iters = 0 /\ trail = <<>> /\ fpc # "L23")
    /\ (fpc = "L24" /\ n < 0) => x = 1

\* A call with a negative argument has returned.
C6_Witness == n < 0 /\ fpc = "idle" /\ hcalls > 0 /\ seen[n] = {1} /\ iters = 0

\* A step taken while a frame of fact is open.
InFrame == fpc # "idle"

\* C7: fact is pure and deterministic: all calls with the same argument,
\* whatever was called in between, return the same result, and a step of
\* fact changes nothing outside its frame (no name bound, nothing written,
\* no module-level progress).
C7_Pure ==
    /\ [](\A a \in ArgRange : Cardinality(seen[a]) <= 1)
    /\ [](\A a \in ArgRange : seen[a] \subseteq {Fact(a)})
    /\ [][InFrame => UNCHANGED <<modvars, hcalls>>]_vars

\* Three calls have returned, the last one fact(3), over the two arguments 3
\* and 5 only: one argument was passed twice, with another call made too.
C7_Witness ==
    /\ hcalls = 3 /\ fpc = "idle" /\ n = 3
    /\ seen[3] = {7} /\ seen[5] = {16}
    /\ \A a \in ArgRange \ {3, 5} : seen[a] = {}

\* C10: the loop of fact runs exactly max(n, 0) times; i takes the values
\* 1, 2, ..., n in ascending order; after the iteration with loop value i,
\* x = 1 + i*(i+1)/2; x is at least 1 and never decreases during a call; the
\* result is strictly increasing in n for n >= 0; every call returns.
C10_LoopInvariant ==
    /\ [](/\ Len(trail) = iters
          /\ iters <= Max(n, 0)
          /\ \A j \in 1..Len(trail) :
                trail[j][1] = j /\ trail[j][2] = Closed(j)
          /\ fpc = "L24" => iters = Max(n, 0)
          /\ fpc = "L23" => (i = iters + 1 /\ i <= n)
          /\ fpc \in {"L22", "L22next", "L23", "L24"} => x >= 1
          /\ fpc \in {"L22next", "L24"} => x = Closed(iters)
          /\ \A a, b \in ArgRange : (0 <= a /\ a < b) =>
                \A ra \in seen[a], rb \in seen[b] : ra < rb)
    /\ [][(fpc \in {"L22", "L22next", "L23"}) => (x' >= x)]_vars
    /\ ((fpc = "L21") ~> (fpc = "L24" /\ iters = Max(n, 0)))

\* A call with argument 5 is about to return after its last iteration.
C10_Witness ==
    /\ fpc = "L24" /\ n = 5 /\ iters = 5 /\ i = 5 /\ x = 16
    /\ trail = <<<<1, 2>>, <<2, 4>>, <<3, 7>>, <<4, 11>>, <<5, 16>>>>

\* C5: unless __name__ is "__main__" the driver does not run: nums is never
\* constructed, fact is not called while the file is loaded, nothing is
\* written.
C5_OnlyTopLevel ==
    name # "__main__" =>
        /\ "nums" \notin bound /\ nums = <<>>
        /\ "facts" \notin bound /\ facts = <<>>
        /\ pc # "done" => (fpc = "idle" /\ hcalls = 0
                           /\ \A a \in ArgRange : seen[a] = {})
        /\ out = ""
        /\ pc \notin {"L28", "L29", "L30", "L31"}

\* The block was loaded as a library: the test of line 27 was false and the
\* module-level code ended normally.
C5_Witness ==
    /\ name = "example1" /\ entry = "L20"
    /\ pc = "done" /\ status = "ok" /\ "fact" \in bound

\* C8: when the driver has run, facts is bound, has the length of nums and
\* its k-th element is fact(nums[k]): 2, 4, 7, 11, 16 for 1, 2, 3, 4, 5.
C8_MapsFact ==
    (TopLevelRun /\ pc = "done") =>
        /\ "facts" \in bound
        /\ Len(facts) = Len(nums)
        /\ \A j \in 1..Len(nums) : facts[j] = Fact(nums[j])
        /\ facts = <<2, 4, 7, 11, 16>>

\* C9: when the driver has run, nums is bound to [1, 2, 3, 4, 5] and was
\* left so by the map and the first write, and the output is that value
\* rendered twice, never the accumulated results.
C9_NumsFrame ==
    (TopLevelRun /\ pc = "done") =>
        /\ "nums" \in bound
        /\ nums = <<1, 2, 3, 4, 5>>
        /\ facts # nums
        /\ out = TwoLines

\* C2: run as the top-level program, the file writes "[1, 2, 3, 4, 5]" and a
\* newline to standard output exactly twice and nothing else.
C2_OutputTwice == (TopLevelRun /\ pc = "done") => out = TwoLines

\* C3: a run as the top-level program ends with success status, after both
\* writes; no run ends in an error state.
C3_ExitsOk ==
    TopLevelRun =>
        /\ status # "error"
        /\ pc = "done" => (status = "ok" /\ out = TwoLines)

\* C4: from the first statement of the file to the end of the driver no
\* statement raises; the definitions of Item and MenuOptions are inert.
C4_NoError ==
    entry = "L1" =>
        /\ exc = "none"
        /\ status # "error"
        /\ (pc = "done" /\ name = "__main__") => "nums" \in bound

====
